---- MODULE Spec2Model ----
\* MVLib optional odometry integrations (MotionView example project).
\*
\* Two headers each define mvlib::setOdom, which installs a pose getter
\* lambda into the Logger:
\*   - logger_optional_ez-template.hpp : setOdom(Logger&, ez::Drive[ptr])
\*   - the LemLib header (part_000)    : setOdom(Logger&, lemlib::Chassis[ptr])
\* Both start with the same preprocessor guard on _MVLIB_OPTIONAL_USED.
\*
\* The model covers
\*   - the preprocessing of every translation unit of a program (the
\*     guard, #pragma once, #error), and the resulting build outcome;
\*   - the back-end objects the application owns (ez::Drive,
\*     lemlib::Chassis) and how the application changes them;
\*   - setOdom and every invocation of the installed pose getter, with the
\*     back-end accessors each invocation calls, in call order.
\*
\* One invocation of the getter is one step: the bridge is synchronous and
\* adds no synchronisation of its own; the back-end's accessors are taken
\* to be safe to call from the logger's sampling context.
EXTENDS Integers, Sequences, FiniteSets

VARIABLES
    program,      \* the translation units: each a sequence of #include'd integration headers
    phase,        \* "source" (not built yet), "built", "failed"
    diagnostics,  \* the #error diagnostics the build produced
    drive,        \* the application's ez::Drive object
    chassis,      \* the application's lemlib::Chassis object
    poseGetter,   \* the callable held by the Logger: the integration and the captured handle
    result,       \* the std::optional<Pose> returned by the last invocation
    accessed,     \* back-end accessors called by the last bridge operation, in call order
    lastOp        \* the last operation: "none", "build", "setOdom", "invoke", "backend"

vars == <<program, phase, diagnostics, drive, chassis, poseGetter, result, accessed, lastOp>>

backend == <<drive, chassis>>

----------------------------------------------------------------------------
\* Bounds of the model

\* number of translation units of a program
MaxUnits == 2

\* number of #include lines of integration headers in one translation unit
MaxIncludes == 2

----------------------------------------------------------------------------
\* Values

EZ == "EZ-Template"

LEMLIB == "LemLib"

Integrations == {EZ, LEMLIB}

\* a null handle, and the addresses of the two back-end objects
NULL == "nullptr"

DRIVE == "&drive"

CHASSIS == "&chassis"

\* std::optional<Pose>: std::nullopt is the empty sequence, a value is <<pose>>
nullopt == <<>>

Some(p) == <<p>>

Pose(px, py, ptheta) == [x |-> px, y |-> py, theta |-> ptheta]

\* precision of a C++ float (binary32): 24 significant bits
FloatMantissaBits == 24

Pow2(n) == 2 ^ n

Abs(v) == IF v < 0 THEN -v ELSE v

RECURSIVE Granule(_, _)
\* spacing of the floats around the magnitude a: the least power of two g
\* with a < 2^24 * g
Granule(a, g) == IF a \div g < Pow2(FloatMantissaBits) THEN g ELSE Granule(a, 2 * g)

\* a to the nearest multiple of g, ties to the even multiple
RoundToGranule(a, g) ==
    LET q == a \div g
        r == a % g
    IN  IF 2 * r < g THEN q * g
        ELSE IF 2 * r > g THEN (q + 1) * g
        ELSE IF q % 2 = 0 THEN q * g ELSE (q + 1) * g

\* the implicit conversion of an integral-valued double to float
\* (const float xIn = chassis->odom_x_get();): round to nearest, ties to even
FloatOf(v) ==
    LET a == Abs(v)
        f == RoundToGranule(a, Granule(a, 1))
    IN  IF v < 0 THEN -f ELSE f

IsFloat(v) == FloatOf(v) = v

\* native readings the back-ends may hold (inches, inches, degrees)
NativePoses ==
    { Pose(0, 0, 0),
      Pose(10, -5, 90),
      Pose(16777217, -33554433, 90) }

\* ez::Drive keeps and returns doubles
EzPoses == NativePoses

\* lemlib::Pose has float fields
LemPoses == {p \in NativePoses : IsFloat(p.x) /\ IsFloat(p.y) /\ IsFloat(p.theta)}

----------------------------------------------------------------------------
\* The preprocessor guard

\* the text of the #error directive, word by word
ErrorMessageEz == <<"More", "than", "one", "type", "of", "Logger/Optional", "include", "used!">>

ErrorMessageLemLib == <<"More", "than", "one", "type", "of", "Logger/Optional", "include", "used!">>

\* preprocessor state at the start of a translation unit
PPInit == [once |-> {}, macro |-> FALSE, diags |-> <<>>, declared |-> {}]

\* #include of logger_optional_ez-template.hpp
IncludeEz(pp) ==
    IF EZ \in pp.once THEN pp                                         \* #pragma once
    ELSE LET p1 == [pp EXCEPT !.once = @ \cup {EZ}]
             p2 == IF p1.macro                                         \* #ifdef ... #error
                   THEN [p1 EXCEPT !.diags = Append(@, [message |-> ErrorMessageEz, file |-> EZ])]
                   ELSE p1
         IN  IF ~p2.macro                                              \* #ifndef ... #define
             THEN [p2 EXCEPT !.macro = TRUE, !.declared = @ \cup {EZ}]
             ELSE p2

\* #include of the LemLib header
IncludeLemLib(pp) ==
    IF LEMLIB \in pp.once THEN pp
    ELSE LET p1 == [pp EXCEPT !.once = @ \cup {LEMLIB}]
             p2 == IF p1.macro
                   THEN [p1 EXCEPT !.diags = Append(@, [message |-> ErrorMessageLemLib, file |-> LEMLIB])]
                   ELSE p1
         IN  IF ~p2.macro
             THEN [p2 EXCEPT !.macro = TRUE, !.declared = @ \cup {LEMLIB}]
             ELSE p2

RECURSIVE PreprocessFrom(_, _)
\* the #include lines of one translation unit, in order
PreprocessFrom(pp, incs) ==
    IF incs = <<>> THEN pp
    ELSE PreprocessFrom(IF Head(incs) = EZ THEN IncludeEz(pp) ELSE IncludeLemLib(pp), Tail(incs))

Preprocess(tu) == PreprocessFrom(PPInit, tu)

RECURSIVE AllDiagnostics(_)
AllDiagnostics(prog) ==
    IF prog = <<>> THEN <<>> ELSE Preprocess(Head(prog)).diags \o AllDiagnostics(Tail(prog))

\* the integrations whose setOdom overload some translation unit declares
Declared == UNION {Preprocess(program[i]).declared : i \in 1..Len(program)}

\* the integrations some translation unit includes
Included == UNION {{program[i][j] : j \in 1..Len(program[i])} : i \in 1..Len(program)}

----------------------------------------------------------------------------
\* The pose getters

\* variants of the EZ-Template getter, each with one plausible slip

\* the readiness query is left out
PoseGetterEz_NoReadiness(c) ==
    IF c = NULL THEN [value |-> nullopt, accessed |-> <<>>]
    ELSE [value    |-> Some(Pose(FloatOf(drive.pose.x), FloatOf(drive.pose.y), FloatOf(drive.pose.theta))),
          accessed |-> <<"odom_x_get", "odom_y_get", "odom_theta_get">>]

\* x and y are swapped in the returned Pose
PoseGetterEz_Swapped(c) ==
    IF c = NULL THEN [value |-> nullopt, accessed |-> <<>>]
    ELSE IF ~drive.enabled THEN [value |-> nullopt, accessed |-> <<"odom_enabled">>]
    ELSE [value    |-> Some(Pose(FloatOf(drive.pose.y), FloatOf(drive.pose.x), FloatOf(drive.pose.theta))),
          accessed |-> <<"odom_enabled", "odom_x_get", "odom_y_get", "odom_theta_get">>]

\* a not-ready answer is latched: once seen, it is returned from then on
PoseGetterEz_Latched(c) ==
    IF c = NULL THEN [value |-> nullopt, accessed |-> <<>>]
    ELSE IF accessed = <<"odom_enabled">> \/ ~drive.enabled
         THEN [value |-> nullopt, accessed |-> <<"odom_enabled">>]
    ELSE [value    |-> Some(Pose(FloatOf(drive.pose.x), FloatOf(drive.pose.y), FloatOf(drive.pose.theta))),
          accessed |-> <<"odom_enabled", "odom_x_get", "odom_y_get", "odom_theta_get">>]

\* the fields are read before the readiness query
PoseGetterEz_ReadsFirst(c) ==
    IF c = NULL THEN [value |-> nullopt, accessed |-> <<>>]
    ELSE [value    |-> IF drive.enabled
                       THEN Some(Pose(FloatOf(drive.pose.x), FloatOf(drive.pose.y), FloatOf(drive.pose.theta)))
                       ELSE nullopt,
          accessed |-> <<"odom_x_get", "odom_y_get", "odom_theta_get", "odom_enabled">>]

\* the lambda reads the application's drive pointer at call time instead of
\* the handle bound at setOdom time
PoseGetterEz_ByReference(c) ==
    IF ~drive.created THEN [value |-> nullopt, accessed |-> <<>>]
    ELSE IF ~drive.enabled THEN [value |-> nullopt, accessed |-> <<"odom_enabled">>]
    ELSE [value    |-> Some(Pose(FloatOf(drive.pose.x), FloatOf(drive.pose.y), FloatOf(drive.pose.theta))),
          accessed |-> <<"odom_enabled", "odom_x_get", "odom_y_get", "odom_theta_get">>]

\* the lambda setOdom(Logger&, ez::Drive[ptr]) installs, called with the
\* captured handle c: the returned optional and the accessors it called
PoseGetterEz(c) ==
    IF c = NULL THEN [value |-> nullopt, accessed |-> <<>>]
    ELSE IF ~drive.enabled THEN [value |-> nullopt, accessed |-> <<"odom_enabled">>]
    ELSE LET xIn   == FloatOf(drive.pose.x)
             yIn   == FloatOf(drive.pose.y)
             thDeg == FloatOf(drive.pose.theta)
         IN  [value    |-> Some(Pose(xIn, yIn, thDeg)),
              accessed |-> <<"odom_enabled", "odom_x_get", "odom_y_get", "odom_theta_get">>]

\* variants of the LemLib getter, each with one plausible slip

\* a null handle yields a default-initialized Pose
PoseGetterLemLib_DefaultPose(c) ==
    IF c = NULL THEN [value |-> Some(Pose(0, 0, 0)), accessed |-> <<>>]
    ELSE [value |-> Some(Pose(chassis.pose.x, chassis.pose.y, chassis.pose.theta)), accessed |-> <<"getPose">>]

\* an uncalibrated chassis is treated as not ready
PoseGetterLemLib_ChecksCalibrated(c) ==
    IF c = NULL \/ ~chassis.calibrated THEN [value |-> nullopt, accessed |-> <<>>]
    ELSE [value |-> Some(Pose(chassis.pose.x, chassis.pose.y, chassis.pose.theta)), accessed |-> <<"getPose">>]

\* the lambda setOdom(Logger&, lemlib::Chassis[ptr]) installs
PoseGetterLemLib(c) ==
    IF c = NULL THEN [value |-> nullopt, accessed |-> <<>>]
    ELSE LET p == chassis.pose
         IN  [value |-> Some(Pose(p.x, p.y, p.theta)), accessed |-> <<"getPose">>]

PoseGetter(g) ==
    IF g.kind = EZ THEN PoseGetterEz(g.chassis) ELSE PoseGetterLemLib(g.chassis)

----------------------------------------------------------------------------
\* Initial state

TranslationUnits == UNION {[1..n -> Integrations] : n \in 0..MaxIncludes}

Programs == UNION {[1..n -> TranslationUnits] : n \in 1..MaxUnits}

NoGetter == [kind |-> "none", chassis |-> NULL]

NoDrive == [created |-> FALSE, enabled |-> FALSE, pose |-> Pose(0, 0, 0)]

NoChassis == [created |-> FALSE, calibrated |-> FALSE, pose |-> Pose(0, 0, 0)]

Init ==
    /\ program \in Programs
    /\ phase = "source"
    /\ diagnostics = <<>>
    /\ drive = NoDrive
    /\ chassis = NoChassis
    /\ poseGetter = NoGetter
    /\ result = nullopt
    /\ accessed = <<>>
    /\ lastOp = "none"

----------------------------------------------------------------------------
\* Build: every translation unit is preprocessed; any #error fails the build

Build ==
    /\ phase = "source"
    /\ diagnostics' = AllDiagnostics(program)
    /\ phase' = IF diagnostics' = <<>> THEN "built" ELSE "failed"
    /\ lastOp' = "build"
    /\ UNCHANGED <<program, drive, chassis, poseGetter, result, accessed>>

----------------------------------------------------------------------------
\* The embedding application and the back-ends

\* the application constructs its ez::Drive
DriveCreate ==
    /\ phase = "built"
    /\ ~drive.created
    /\ drive' = [drive EXCEPT !.created = TRUE]
    /\ lastOp' = "backend"
    /\ UNCHANGED <<program, phase, diagnostics, chassis, poseGetter, result, accessed>>

\* odometry is switched on or off (what odom_enabled() reports)
DriveOdomEnable(b) ==
    /\ phase = "built"
    /\ drive.created
    /\ drive.enabled # b
    /\ drive' = [drive EXCEPT !.enabled = b]
    /\ lastOp' = "backend"
    /\ UNCHANGED <<program, phase, diagnostics, chassis, poseGetter, result, accessed>>

\* the drive's tracking updates what odom_x_get/odom_y_get/odom_theta_get report
DriveMove(p) ==
    /\ phase = "built"
    /\ drive.created
    /\ drive.pose # p
    /\ drive' = [drive EXCEPT !.pose = p]
    /\ lastOp' = "backend"
    /\ UNCHANGED <<program, phase, diagnostics, chassis, poseGetter, result, accessed>>

\* the application constructs its lemlib::Chassis
ChassisCreate ==
    /\ phase = "built"
    /\ ~chassis.created
    /\ chassis' = [chassis EXCEPT !.created = TRUE]
    /\ lastOp' = "backend"
    /\ UNCHANGED <<program, phase, diagnostics, drive, poseGetter, result, accessed>>

\* the application calibrates the chassis
ChassisCalibrate ==
    /\ phase = "built"
    /\ chassis.created
    /\ ~chassis.calibrated
    /\ chassis' = [chassis EXCEPT !.calibrated = TRUE]
    /\ lastOp' = "backend"
    /\ UNCHANGED <<program, phase, diagnostics, drive, poseGetter, result, accessed>>

\* the chassis' tracking updates what getPose() reports
ChassisMove(p) ==
    /\ phase = "built"
    /\ chassis.created
    /\ chassis.pose # p
    /\ chassis' = [chassis EXCEPT !.pose = p]
    /\ lastOp' = "backend"
    /\ UNCHANGED <<program, phase, diagnostics, drive, poseGetter, result, accessed>>

----------------------------------------------------------------------------
\* The bridge

\* mvlib::setOdom(logger, c) of the EZ-Template header: c is nullptr or
\* points to the application's live drive
SetOdomEz(c) ==
    /\ phase = "built"
    /\ EZ \in Declared
    /\ c = DRIVE => drive.created
    /\ poseGetter' = [kind |-> EZ, chassis |-> c]
    /\ accessed' = <<>>
    /\ lastOp' = "setOdom"
    /\ UNCHANGED <<program, phase, diagnostics, drive, chassis, result>>

\* mvlib::setOdom(logger, c) of the LemLib header
SetOdomLemLib(c) ==
    /\ phase = "built"
    /\ LEMLIB \in Declared
    /\ c = CHASSIS => chassis.created
    /\ poseGetter' = [kind |-> LEMLIB, chassis |-> c]
    /\ accessed' = <<>>
    /\ lastOp' = "setOdom"
    /\ UNCHANGED <<program, phase, diagnostics, drive, chassis, result>>

\* variant of the invocation that resets the drive's odometry while sampling
InvokePoseGetter_Resets ==
    /\ phase = "built"
    /\ poseGetter.kind # "none"
    /\ result' = PoseGetter(poseGetter).value
    /\ accessed' = PoseGetter(poseGetter).accessed
    /\ lastOp' = "invoke"
    /\ drive' = [drive EXCEPT !.pose = Pose(0, 0, 0)]
    /\ UNCHANGED <<program, phase, diagnostics, chassis, poseGetter>>

\* the Logger calls the installed pose getter
InvokePoseGetter ==
    /\ phase = "built"
    /\ poseGetter.kind # "none"
    /\ result' = PoseGetter(poseGetter).value
    /\ accessed' = PoseGetter(poseGetter).accessed
    /\ lastOp' = "invoke"
    /\ UNCHANGED <<program, phase, diagnostics, drive, chassis, poseGetter>>

Next ==
    \/ Build
    \/ DriveCreate
    \/ \E b \in BOOLEAN : DriveOdomEnable(b)
    \/ \E p \in EzPoses : DriveMove(p)
    \/ ChassisCreate
    \/ ChassisCalibrate
    \/ \E p \in LemPoses : ChassisMove(p)
    \/ \E c \in {NULL, DRIVE} : SetOdomEz(c)
    \/ \E c \in {NULL, CHASSIS} : SetOdomLemLib(c)
    \/ InvokePoseGetter

Spec == Init /\ [][Next]_vars

----------------------------------------------------------------------------
\* Properties

Range(f) == {f[i] : i \in DOMAIN f}

Invoked == lastOp = "invoke"

FieldAccessors == {"odom_x_get", "odom_y_get", "odom_theta_get"}

\* C1: a getter installed with a null handle (either integration) returns
\* std::nullopt on every invocation, never a Pose, and calls no accessor
\* through the null handle (so it cannot fault).
C1_NullHandleUnavailable ==
    (Invoked /\ poseGetter.chassis = NULL) => (result = nullopt /\ accessed = <<>>)

\* a LemLib getter with a null handle was invoked while the application had a
\* live chassis away from the origin
C1_Witness ==
    /\ Invoked
    /\ poseGetter = [kind |-> LEMLIB, chassis |-> NULL]
    /\ chassis.created
    /\ chassis.pose = Pose(10, -5, 90)
    /\ result = nullopt

\* C2: with a present EZ-Template handle whose back-end reports not-ready,
\* every invocation returns std::nullopt whatever the x/y/theta fields are,
\* the same outcome as for a null handle.
C2_NotReadyUnavailable ==
    (Invoked /\ poseGetter = [kind |-> EZ, chassis |-> DRIVE] /\ ~drive.enabled)
        => (result = nullopt /\ result = PoseGetterEz(NULL).value)

\* an EZ-Template getter was invoked on a disabled drive with non-zero readings
C2_Witness ==
    /\ Invoked
    /\ poseGetter = [kind |-> EZ, chassis |-> DRIVE]
    /\ ~drive.enabled
    /\ drive.pose = Pose(10, -5, 90)
    /\ result = nullopt

\* the source is usable: the handle is non-null and, for EZ-Template, odometry
\* is enabled
Usable ==
    /\ poseGetter.chassis # NULL
    /\ poseGetter.kind = EZ => drive.enabled

\* the native readings of the bound back-end
NativeReading == IF poseGetter.kind = EZ THEN drive.pose ELSE chassis.pose

\* C3 as stated: with the handle present and readiness holding, the getter
\* returns a Pose equal, field by field, to the native readings.
C3_NativeIdentity ==
    (Invoked /\ Usable) => result = Some(NativeReading)

\* C3 amended: the getter returns a Pose whose fields are the native readings
\* converted to float, x to x, y to y, theta to theta; the Pose equals the
\* native readings for LemLib and for every EZ-Template reading a float holds.
C3_NativeAsFloat ==
    (Invoked /\ Usable) =>
        /\ Len(result) = 1
        /\ result[1].x = FloatOf(NativeReading.x)
        /\ result[1].y = FloatOf(NativeReading.y)
        /\ result[1].theta = FloatOf(NativeReading.theta)
        /\ (poseGetter.kind = LEMLIB => result = Some(NativeReading))
        /\ (IsFloat(NativeReading.x) /\ IsFloat(NativeReading.y) /\ IsFloat(NativeReading.theta)
              => result = Some(NativeReading))

\* an EZ-Template reading that no float holds was sampled and came back rounded
C3_Witness ==
    /\ Invoked
    /\ poseGetter = [kind |-> EZ, chassis |-> DRIVE]
    /\ drive.enabled
    /\ drive.pose = Pose(16777217, -33554433, 90)
    /\ result = Some(Pose(16777216, -33554432, 90))

\* C4: a program that includes both integrations never builds (so no
\* setOdom and no pose sampling ever happens in it).
C4_TwoIntegrationsNeverBuild ==
    Included = Integrations => phase # "built"

\* C5: the getter is stateless: every invocation returns a Pose exactly when
\* the source is usable at that call, built from the readings at that call,
\* and two consecutive invocations return equal results.
C5_Stateless ==
    [][ lastOp' = "invoke" =>
          /\ (result' # nullopt) <=> Usable'
          /\ Usable' => result' = Some(Pose(FloatOf(NativeReading'.x),
                                            FloatOf(NativeReading'.y),
                                            FloatOf(NativeReading'.theta)))
          /\ lastOp = "invoke" => result' = result ]_vars

\* an EZ-Template getter that reported not-ready at an earlier invocation
\* returned a Pose once odometry was enabled
C5_Witness ==
    /\ Invoked
    /\ poseGetter = [kind |-> EZ, chassis |-> DRIVE]
    /\ drive.enabled
    /\ drive.pose = Pose(10, -5, 90)
    /\ result = Some(Pose(10, -5, 90))

\* C6: setOdom and every invocation of the getter leave the back-ends'
\* x, y, heading and readiness unchanged.
C6_BackendUntouched ==
    [][ lastOp' \in {"setOdom", "invoke"} => (drive' = drive /\ chassis' = chassis) ]_vars

\* a Pose was sampled from a calibrated chassis and the chassis still holds
\* its readings and its calibration
C6_Witness ==
    /\ Invoked
    /\ poseGetter = [kind |-> LEMLIB, chassis |-> CHASSIS]
    /\ chassis.calibrated
    /\ chassis.pose = Pose(10, -5, 90)
    /\ result = Some(Pose(10, -5, 90))

\* C7: when the build fails on the guard, every diagnostic message names the
\* integrations in conflict.
C7_MessageNamesIntegrations ==
    phase = "failed" =>
        \A i \in 1..Len(diagnostics) : Integrations \subseteq Range(diagnostics[i].message)

\* C8: within one invocation of the EZ-Template getter, odom_enabled is never
\* called on a null handle, and a field accessor is called only after
\* odom_enabled was called first and reported true, on a non-null handle.
C8_CheckOrder ==
    (Invoked /\ poseGetter.kind = EZ) =>
        /\ poseGetter.chassis = NULL => accessed = <<>>
        /\ \A i \in 1..Len(accessed) :
              accessed[i] \in FieldAccessors =>
                  /\ poseGetter.chassis # NULL
                  /\ i > 1
                  /\ accessed[1] = "odom_enabled"
                  /\ drive.enabled
        /\ \A i \in 2..Len(accessed) : accessed[i] # "odom_enabled"

\* an invocation on a disabled drive stopped after the readiness query
C8_Witness ==
    /\ Invoked
    /\ poseGetter = [kind |-> EZ, chassis |-> DRIVE]
    /\ ~drive.enabled
    /\ accessed = <<"odom_enabled">>

\* C9: the LemLib getter returns std::nullopt exactly when its handle is
\* null; with a non-null handle it returns the Pose of getPose(), calibrated
\* or not.
C9_LemLibNoReadiness ==
    (Invoked /\ poseGetter.kind = LEMLIB) =>
        /\ (result = nullopt) <=> (poseGetter.chassis = NULL)
        /\ poseGetter.chassis # NULL =>
              (result = Some(chassis.pose) /\ accessed = <<"getPose">>)

\* a Pose was sampled from a chassis that was never calibrated
C9_Witness ==
    /\ Invoked
    /\ poseGetter = [kind |-> LEMLIB, chassis |-> CHASSIS]
    /\ ~chassis.calibrated
    /\ result = Some(Pose(10, -5, 90))

\* C10: the handle is bound at setOdom time: setOdom calls no back-end
\* accessor, only setOdom changes the bound handle, and a getter bound to a
\* null handle returns std::nullopt at every invocation, also after the
\* application has created and enabled a back-end.
C10_HandleBoundAtInstall ==
    [][ /\ lastOp' = "setOdom" => accessed' = <<>>
        /\ lastOp' # "setOdom" => poseGetter' = poseGetter
        /\ (lastOp' = "invoke" /\ poseGetter.chassis = NULL) => result' = nullopt ]_vars

\* an EZ-Template getter bound to a null handle was invoked after the
\* application created and enabled its drive
C10_Witness ==
    /\ Invoked
    /\ poseGetter = [kind |-> EZ, chassis |-> NULL]
    /\ drive.created
    /\ drive.enabled
    /\ drive.pose = Pose(10, -5, 90)
    /\ result = nullopt

====
